---- MODULE Spec2Model ----
(***************************************************************************)
(* make-component: the lifecycle base class (Base), the form-binding       *)
(* subclass (FormBase) and the registrar, as a state machine.              *)
(*                                                                         *)
(* Every component instance owns its own flag, data mapping and timer      *)
(* handle, so every variable is a function over the instances.  The        *)
(* host's event loop is modelled by interleaving: one action is one        *)
(* callback (a promise reaction, a timer callback, an event listener) or   *)
(* one call made by the embedding page.                                    *)
(***************************************************************************)
EXTENDS Integers, Sequences, FiniteSets, TLC

\* ------------------------------------------------------------------ bounds
\* connectedCallback calls per instance (1: connect, 2: reconnect).
MaxConnects == 2
\* render() calls per instance after which the page calls render() no more.
MaxRenderCalls == 2
\* Assignments to the data property per instance.
MaxAssigns == 1
\* Control events per instance next to the lifecycle.
MaxEvents == 2
\* Control events per instance in the specification of bursts.
MaxBurst == 5

MaxMakes == 3

MaxIsoEvents == 2

\* Two instances of one component class.
Insts == {1, 2}

\* The instance the single-instance specifications drive.
Driven == {1}

\* ------------------------------------------------------------------ values
\* Rejection reasons a hook's promise may carry, and the value a template
\* override may throw.
Reasons == {"e1", "e2"}
TemplateError == "e_tpl"
NoReason == "none"

\* Names of form controls; "" is a control that has no name.
Names == {"title", "agree"}
NoName == ""

\* A value stored in the data mapping.  Absent marks a key the mapping does
\* not have.
Absent == [ty |-> "absent", b |-> FALSE, s |-> ""]
Bool(b) == [ty |-> "boolean", b |-> b, s |-> ""]
Str(s) == [ty |-> "string", b |-> FALSE, s |-> s]

EmptyMap == [n \in Names |-> Absent]

\* A JavaScript value as the data setter sees it: its kind, and for an
\* object its identity (ref) and its own enumerable keys (map).
\* ref 0 is the mapping made by the constructor.
Prim(kind) == [kind |-> kind, ref |-> -1, map |-> EmptyMap]
Obj(ref, map) == [kind |-> "object", ref |-> ref, map |-> map]
Null == Prim("null")

PrimKinds == {"string", "number", "boolean", "undefined", "function"}

VARIABLES
    canRender,        \* ___CAN_RENDER___
    shadow,           \* whether this.shadow is set
    chains,           \* one promise chain per connectedCallback call
    renderCalls,      \* calls of render()
    tplCalls,         \* calls of template(this)
    extRenders,       \* calls of lit-html's render(), with their target
    flips,            \* times ___CAN_RENDER___ went from false to true
    data,             \* this._data
    assigns,          \* assignments made to the data property
    lastAssigned,     \* the value of the latest assignment
    timers,           \* pending and cleared timeouts, in due order
    debounceTimeout,  \* the closure variable debounceTimeout (0: undefined)
    events,           \* control events delivered to the listener, and the latest
    bursts,           \* qualifying events grouped by the 10ms window
    hcLog,            \* events handleChange was invoked with, in order
    hcTrace,          \* what the latest handleChange did, in order
    bubble,           \* the latest popBubble call of the page: flag and effects
    latest,           \* per name, the value of the latest qualifying event since
                      \* the latest assignment to the data property
    thrown,           \* the latest exception that escaped a listener or a call
    registry,         \* customElements: the class defined for each tag name
    made              \* the makewc calls made, and the latest with its outcome

vars == <<canRender, shadow, chains, renderCalls, tplCalls, extRenders, flips,
          data, assigns, lastAssigned, timers, debounceTimeout, events,
          bursts, hcLog, hcTrace, bubble, latest, thrown, registry, made>>

regVars == <<registry, made>>

lifeVars == <<canRender, chains, flips>>
renderVars == <<renderCalls, tplCalls, extRenders>>
dataVars == <<data, assigns, lastAssigned>>
formVars == <<timers, debounceTimeout, events, bursts, hcLog, hcTrace, bubble, latest>>

\* new Event(type) with no EventInit: the DOM defaults.
NewEvent(type) == [type |-> type, bubbles |-> FALSE, cancelable |-> FALSE]

\* The component as an event target: HTMLElement has no name property.
SelfTarget == [name |-> NoName, type |-> "", hasChecked |-> FALSE, value |-> ""]

\* No handleChange has run yet.
\* The tag names and classes the page passes to makewc; "panel" has no
\* hyphen, so it is not a valid custom element name.
Tags == {"my-form", "my-card", "panel"}

Classes == {"MyForm", "MyCard", "Other"}

NoClass == "none"

Nothing == "nothing"

\* No makewc call yet.
NoMake == [n |-> 0, defines |-> 0, tag |-> "", cls |-> NoClass, threw |-> "none",
           returned |-> Nothing]

\* The values a caller passes as popBubble's second argument; an omitted
\* argument is undefined.
Flag(ty, b, n, s) == [ty |-> ty, b |-> b, n |-> n, s |-> s]

Undefined == Flag("undefined", FALSE, 0, "")

FlagValues ==
    {Undefined, Flag("null", FALSE, 0, ""), Flag("object", FALSE, 0, "")}
        \cup {Flag("boolean", b, 0, "") : b \in BOOLEAN}
        \cup {Flag("number", FALSE, n, "") : n \in {0, 1}}
        \cup {Flag("string", FALSE, 0, s) : s \in {"", "yes"}}

\* No popBubble call yet.
NoBubble == [called |-> FALSE, flag |-> Undefined, effects |-> <<>>]

NoChange ==
    [evt |-> 0, effects |-> <<>>, from |-> "none",
     dispatched |-> [type |-> "", bubbles |-> FALSE, cancelable |-> FALSE]]

\* ------------------------------------------------------------ construction
\* Base.constructor: this.___CAN_RENDER___ = false
RenderEnabledInit == FALSE

\* FormBase.constructor: this._data = {}
\* The identity of the objects instance i comes to hold first: number 0 is
\* the one its constructor creates, number k the object literal of the
\* page's k-th assignment to it.  No two objects have the same identity.
OwnRef(i, k) == (i - 1) * (MaxAssigns + 1) + k

\* this._data = {}
DataInit(i) == Obj(OwnRef(i, 0), EmptyMap)

Init ==
    /\ canRender = [i \in Insts |-> RenderEnabledInit]
    /\ shadow = [i \in Insts |-> FALSE]
    /\ chains = [i \in Insts |-> <<>>]
    /\ renderCalls = [i \in Insts |-> 0]
    /\ tplCalls = [i \in Insts |-> 0]
    /\ extRenders = [i \in Insts |-> [n |-> 0, target |-> "none"]]
    /\ flips = [i \in Insts |-> 0]
    /\ data = [i \in Insts |-> DataInit(i)]
    /\ assigns = [i \in Insts |-> 0]
    /\ lastAssigned = [i \in Insts |-> Prim("undefined")]
    /\ timers = [i \in Insts |-> <<>>]
    /\ debounceTimeout = [i \in Insts |-> 0]
    /\ events = [i \in Insts |-> [n |-> 0, qualifying |-> FALSE, self |-> FALSE,
                                   target |-> SelfTarget]]
    /\ bursts = [i \in Insts |-> <<>>]
    /\ hcLog = [i \in Insts |-> <<>>]
    /\ hcTrace = [i \in Insts |-> NoChange]
    /\ bubble = [i \in Insts |-> NoBubble]
    /\ latest = [i \in Insts |-> EmptyMap]
    /\ thrown = [i \in Insts |-> "none"]
    /\ registry = [t \in Tags |-> NoClass]
    /\ made = NoMake

\* ------------------------------------------------------------------ render
\* Mutant: render() without the guard on the flag.
ShouldRenderAlways(flag) == TRUE

\* Base.render: if (this.___CAN_RENDER___)
ShouldRender(flag) == flag

\* Base.render: the root handed to lit-html's render
RenderTarget(hasShadow) == IF hasShadow THEN "shadow" ELSE "self"

\* How a render pass that gets past the guard ends: template(this) and
\* lit-html's render both return, template(this) throws, or template(this)
\* returns and lit-html's render throws.
RenderOutcomes == {"returns", "template.throws", "render.throws"}

\* Base.render, called while the flag has the value `flag`; `out` is how the
\* pass ends.  lit-html's render is called once template(this) has returned.
Render(i, flag, out) ==
    /\ renderCalls' = [renderCalls EXCEPT ![i] = @ + 1]
    /\ IF ShouldRender(flag)
       THEN /\ tplCalls' = [tplCalls EXCEPT ![i] = @ + 1]
            /\ IF out # "template.throws"
               THEN extRenders' = [extRenders EXCEPT ![i] =
                        [n |-> @.n + 1, target |-> RenderTarget(shadow[i])]]
               ELSE UNCHANGED extRenders
       ELSE UNCHANGED <<tplCalls, extRenders>>

\* Whether a render() call made while the flag is `flag` ends by throwing.
RenderThrows(flag, out) == ShouldRender(flag) /\ out # "returns"

Throw(i, what) == [thrown EXCEPT ![i] = what]

\* ---------------------------------------------------------------- lifecycle
\* The promise chain of one connectedCallback call:
\*   pre().then(t1).then(t2).catch(c)
\* pc is the reaction the chain waits for; trace is what it has done.
NewChain == [pc |-> "pre", reason |-> NoReason, trace |-> <<"pre">>, errs |-> <<>>]

Step(ch, pc, reason, did) ==
    [ch EXCEPT !.pc = pc, !.reason = reason, !.trace = @ \o did]

SetChain(i, c, ch) == chains' = [chains EXCEPT ![i][c] = ch]

\* Mutant: connectedCallback enables rendering without waiting for pre().
ConnectEnables(i, cap) ==
    /\ Len(chains[i]) < cap
    /\ chains' = [chains EXCEPT ![i] = Append(@, NewChain)]
    /\ canRender' = [canRender EXCEPT ![i] = TRUE]
    /\ flips' = [flips EXCEPT ![i] = IF canRender[i] THEN @ ELSE @ + 1]
    /\ UNCHANGED <<shadow, regVars, renderVars, dataVars, formVars, thrown>>

\* Base.connectedCallback: this.pre() is invoked and the chain is built.
Connect(i, cap) ==
    /\ Len(chains[i]) < cap
    /\ chains' = [chains EXCEPT ![i] = Append(@, NewChain)]
    /\ UNCHANGED <<canRender, shadow, regVars, flips, renderVars, dataVars, formVars, thrown>>

\* The promise returned by pre() resolves.
PreResolve(i, c) ==
    /\ chains[i][c].pc = "pre"
    /\ SetChain(i, c, Step(chains[i][c], "then1", NoReason, <<"pre.resolved">>))
    /\ UNCHANGED <<canRender, shadow, regVars, flips, renderVars, dataVars, formVars, thrown>>

\* The promise returned by pre() rejects with reason r.
PreReject(i, c, r) ==
    /\ chains[i][c].pc = "pre"
    /\ SetChain(i, c, Step(chains[i][c], "catch", r, <<"pre.rejected">>))
    /\ UNCHANGED <<canRender, shadow, regVars, flips, renderVars, dataVars, formVars, thrown>>

\* Mutant: the reaction catches what render() throws and goes on.
Then1Swallows(i, c, out) ==
    /\ chains[i][c].pc = "then1"
    /\ canRender' = [canRender EXCEPT ![i] = TRUE]
    /\ flips' = [flips EXCEPT ![i] = IF canRender[i] THEN @ ELSE @ + 1]
    /\ Render(i, TRUE, out)
    /\ IF RenderThrows(TRUE, out)
       THEN SetChain(i, c, Step(chains[i][c], "then2", NoReason,
                                <<"flag", "render", "render.threw">>))
       ELSE SetChain(i, c, Step(chains[i][c], "then2", NoReason,
                                <<"flag", "render", "render.returned">>))
    /\ UNCHANGED <<shadow, regVars, dataVars, formVars, thrown>>

\* .then(() => { this.___CAN_RENDER___ = true; this.render();
\*               return Promise.resolve(); })
Then1(i, c, out) ==
    /\ chains[i][c].pc = "then1"
    /\ canRender' = [canRender EXCEPT ![i] = TRUE]
    /\ flips' = [flips EXCEPT ![i] = IF canRender[i] THEN @ ELSE @ + 1]
    /\ Render(i, TRUE, out)
    /\ IF RenderThrows(TRUE, out)
       THEN SetChain(i, c, Step(chains[i][c], "catch", TemplateError,
                                <<"flag", "render", "render.threw">>))
       ELSE SetChain(i, c, Step(chains[i][c], "then2", NoReason,
                                <<"flag", "render", "render.returned">>))
    /\ UNCHANGED <<shadow, regVars, dataVars, formVars, thrown>>

\* .then(() => this.init())
Then2(i, c) ==
    /\ chains[i][c].pc = "then2"
    /\ SetChain(i, c, Step(chains[i][c], "init", NoReason, <<"init">>))
    /\ UNCHANGED <<canRender, shadow, regVars, flips, renderVars, dataVars, formVars, thrown>>

\* The promise returned by init() resolves: the chain ends, nothing is called.
InitResolve(i, c) ==
    /\ chains[i][c].pc = "init"
    /\ SetChain(i, c, Step(chains[i][c], "ready", NoReason, <<"init.resolved">>))
    /\ UNCHANGED <<canRender, shadow, regVars, flips, renderVars, dataVars, formVars, thrown>>

\* The promise returned by init() rejects with reason r.
InitReject(i, c, r) ==
    /\ chains[i][c].pc = "init"
    /\ SetChain(i, c, Step(chains[i][c], "catch", r, <<"init.rejected">>))
    /\ UNCHANGED <<canRender, shadow, regVars, flips, renderVars, dataVars, formVars, thrown>>

\* Mutant: the catch is placed before the thens, pre().catch(c).then(t1)...:
\* after setupError the chain goes on.
CatchFirst(i, c) ==
    /\ chains[i][c].pc = "catch"
    /\ chains' = [chains EXCEPT ![i][c] =
           [Step(@, "then1", NoReason, <<"setupError">>) EXCEPT
               !.errs = Append(@, chains[i][c].reason)]]
    /\ UNCHANGED <<canRender, shadow, regVars, flips, renderVars, dataVars, formVars, thrown>>

\* Mutant: the error path switches rendering off again.
CatchDisables(i, c) ==
    /\ chains[i][c].pc = "catch"
    /\ chains' = [chains EXCEPT ![i][c] =
           [Step(@, "error", @.reason, <<"setupError">>) EXCEPT
               !.errs = Append(@, chains[i][c].reason)]]
    /\ canRender' = [canRender EXCEPT ![i] = FALSE]
    /\ UNCHANGED <<shadow, regVars, flips, renderVars, dataVars, formVars, thrown>>

\* .catch((e) => this.setupError(e)); the default setupError logs.
Catch(i, c) ==
    /\ chains[i][c].pc = "catch"
    /\ chains' = [chains EXCEPT ![i][c] =
           [Step(@, "error", @.reason, <<"setupError">>) EXCEPT
               !.errs = Append(@, chains[i][c].reason)]]
    /\ UNCHANGED <<canRender, shadow, regVars, flips, renderVars, dataVars, formVars, thrown>>

\* The subclass attaches a shadow root and keeps it in this.shadow (Base
\* declares the property and never sets it).
AttachShadow(i) ==
    /\ ~shadow[i]
    /\ shadow' = [shadow EXCEPT ![i] = TRUE]
    /\ UNCHANGED <<lifeVars, regVars, renderVars, dataVars, formVars, thrown>>

\* render() called by the page or by the subclass.
RenderCall(i, out) ==
    /\ renderCalls[i] < MaxRenderCalls
    /\ Render(i, canRender[i], out)
    /\ thrown' = IF RenderThrows(canRender[i], out)
                 THEN Throw(i, TemplateError) ELSE thrown
    /\ UNCHANGED <<lifeVars, shadow, regVars, dataVars, formVars>>

\* ------------------------------------------------------------------ makewc
\* The host's check of a custom element name, on the names of the model.
ValidName(tag) == tag \in {"my-form", "my-card"}

\* customElements.define(tag, cls) of the host: the exception it raises
\* ("none" when it registers) and the registry it leaves.
Define(reg, tag, cls) ==
    IF ~ValidName(tag) THEN [threw |-> "SyntaxError", reg |-> reg]
    ELSE IF reg[tag] # NoClass THEN [threw |-> "NotSupportedError", reg |-> reg]
    ELSE IF \E t \in Tags : reg[t] = cls THEN [threw |-> "NotSupportedError", reg |-> reg]
    ELSE [threw |-> "none", reg |-> [reg EXCEPT ![tag] = cls]]

\* Mutant: makewc catches what define raises and returns the class anyway.
MakewcReturnsAnyway(cls, threw) == cls

\* makewc: return component_class; not reached when define raised.
MakewcReturn(cls, threw) == IF threw = "none" THEN cls ELSE Nothing

\* makewc(tag_name, component_class)
Makewc(tag, cls) ==
    /\ made.n < MaxMakes
    /\ LET d == Define(registry, tag, cls)
       IN /\ registry' = d.reg
          /\ made' = [n |-> made.n + 1, defines |-> made.defines + 1, tag |-> tag,
                      cls |-> cls, threw |-> d.threw,
                      returned |-> MakewcReturn(cls, d.threw)]
    /\ UNCHANGED <<lifeVars, shadow, renderVars, dataVars, formVars, thrown>>

\* -------------------------------------------------------------- data setter
\* JavaScript's typeof, on the kinds the model has: typeof null is "object".
TypeOf(v) == IF v.kind = "null" THEN "object" ELSE v.kind

\* Mutant: the setter rejects undefined only.
SetterAcceptsDefined(v) == TypeOf(v) # "undefined"

\* FormBase.set data: if (typeof value != "object") return;
SetterAccepts(v) == TypeOf(v) = "object"

\* set data(value): this._data = value keeps the reference, it makes no
\* copy.  Two values are one and the same object when they are objects of
\* the same identity.
SameObject(a, b) == a.kind = "object" /\ b.kind = "object" /\ a.ref = b.ref

\* this.data[name] = ... by instance i, with d the object after the store:
\* what each instance's _data refers to afterwards.  The store mutates the
\* object in place, so every instance holding it has the new contents.
Stores(i, d) ==
    [j \in Insts |-> IF j = i \/ SameObject(d, data[j]) THEN d ELSE data[j]]

\* The mappings a page assigns.
AssignMaps == {EmptyMap, [EmptyMap EXCEPT !["title"] = Str("Hello")]}

\* The values a page assigns: every primitive kind, null, and fresh objects.
AssignValues(i) ==
    {Prim(k) : k \in PrimKinds} \cup {Null}
        \cup {Obj(OwnRef(i, assigns[i] + 1), m) : m \in AssignMaps}

\* this.data = v
AssignData(i, v, out) ==
    /\ assigns[i] < MaxAssigns
    /\ assigns' = [assigns EXCEPT ![i] = @ + 1]
    /\ lastAssigned' = [lastAssigned EXCEPT ![i] = v]
    /\ IF SetterAccepts(v)
       THEN /\ data' = [data EXCEPT ![i] = v]
            /\ Render(i, canRender[i], out)
            /\ thrown' = IF RenderThrows(canRender[i], out)
                         THEN Throw(i, TemplateError) ELSE thrown
       ELSE UNCHANGED <<data, renderVars, thrown>>
    /\ latest' = [latest EXCEPT ![i] = EmptyMap]
    /\ UNCHANGED <<lifeVars, shadow, regVars, timers, debounceTimeout, events, bursts,
                   hcLog, hcTrace, bubble>>

\* ------------------------------------------------------------ form binding
\* The form controls of the model: a text input and a checkbox that have a
\* name, and a text input that has none.
Controls ==
    {[name |-> "title", type |-> "text", hasChecked |-> FALSE, value |-> v] :
        v \in {"Hello", "World"}}
    \cup {[name |-> "agree", type |-> "checkbox", hasChecked |-> c, value |-> "on"] :
        c \in BOOLEAN}
    \cup {[name |-> NoName, type |-> "text", hasChecked |-> FALSE, value |-> "Hello"]}

\* Two of the controls: the text input holding "Hello" and the checkbox
\* when it has the checked attribute.
TitleHello == [name |-> "title", type |-> "text", hasChecked |-> FALSE, value |-> "Hello"]

AgreeChecked == [name |-> "agree", type |-> "checkbox", hasChecked |-> TRUE, value |-> "on"]

\* The event types the controls of a form fire.
EventTypes == {"change", "input", "click"}

\* An event as the listener sees it: its number, whether its target is the
\* component itself, and the target's properties.
Evt(id, self, target) == [id |-> id, self |-> self, target |-> target]

\* this.addEventListener("change", handler);
\* this.addEventListener("input", handler);
Listened == {"change", "input"}

\* Mutant: the handler has no early return.
IgnoredNever(evt) == FALSE

\* Mutant: the handler ignores only the events of the component itself.
IgnoredSelfOnly(evt) == evt.self

\* handler: if (evt.target === this || !evt.target.name) return;
Ignored(evt) == evt.self \/ evt.target.name = NoName

\* handler: the value stored under evt.target.name
Stored(target) ==
    IF target.type = "checkbox" THEN Bool(target.hasChecked) ELSE Str(target.value)

\* The handler's view of the instance: what it reads and writes.
FormState(i) ==
    [data |-> data[i], timers |-> timers[i], debounceTimeout |-> debounceTimeout[i],
     bursts |-> bursts[i], thrown |-> thrown[i]]

\* The 10ms windows: a qualifying event joins the burst of the previous one
\* when that event's timeout is not due yet, else it opens a burst.  single
\* says that every event of the burst came before the first one's timeout
\* was due.
Joined(fs, id) ==
    IF fs.timers = <<>>
    THEN Append(fs.bursts, [ids |-> <<id>>, single |-> TRUE])
    ELSE LET k == Len(fs.bursts)
             b == fs.bursts[k]
         IN [fs.bursts EXCEPT ![k] =
                [ids |-> Append(b.ids, id),
                 single |-> b.single /\ \E t \in 1..Len(fs.timers) :
                                fs.timers[t].id = b.ids[1]]]

\* handler: debounceTimeout = setTimeout(() => {...}, 10)
\* Every timeout has the same delay, so timeouts are due in the order they
\* were set; the new one is the last of the queue.
SetTimer(fs, evt) ==
    [fs EXCEPT !.timers = Append(@, [id |-> evt.id, evt |-> evt, live |-> TRUE]),
               !.debounceTimeout = evt.id]

\* The change/input listener of FormBase.constructor.
Handler(fs, evt) ==
    IF Ignored(evt) THEN fs
    ELSE IF fs.data.kind # "object"
    THEN \* this.data[name] = ... on null throws a TypeError
         [fs EXCEPT !.thrown = "TypeError"]
    ELSE SetTimer(
            [fs EXCEPT !.data.map[evt.target.name] = Stored(evt.target),
                       !.bursts = Joined(fs, evt.id)],
            evt)

\* clearTimeout(handle): a pending timeout with that handle never runs.
ClearTimeout(q, handle) ==
    [t \in 1..Len(q) |-> IF q[t].id = handle THEN [q[t] EXCEPT !.live = FALSE] ELSE q[t]]

\* if (preventDefault): JavaScript's ToBoolean.
ToBoolean(v) ==
    CASE v.ty = "boolean" -> v.b
      [] v.ty = "number" -> v.n # 0
      [] v.ty = "string" -> v.s # ""
      [] v.ty = "object" -> TRUE
      [] OTHER -> FALSE

\* Mutant: popBubble tests preventDefault === true.
PopBubbleStrict(preventDefault) ==
    <<"stopPropagation", "stopImmediatePropagation">>
        \o (IF preventDefault = Flag("boolean", TRUE, 0, "")
            THEN <<"preventDefault">> ELSE <<>>)

\* Base.popBubble(evt, preventDefault): the calls made on evt, in order.
PopBubble(preventDefault) ==
    <<"stopPropagation", "stopImmediatePropagation">>
        \o (IF ToBoolean(preventDefault) THEN <<"preventDefault">> ELSE <<>>)

\* The page or the subclass calls this.popBubble(evt, flag).
PopBubbleCall(i, flag) ==
    /\ bubble' = [bubble EXCEPT ![i] = [called |-> TRUE, flag |-> flag,
                                        effects |-> PopBubble(flag)]]
    /\ UNCHANGED <<lifeVars, shadow, regVars, renderVars, dataVars, timers, debounceTimeout,
                   events, bursts, hcLog, hcTrace, latest, thrown>>

\* Mutant: handleChange dispatches before it stops the control's event.
DispatchFirst == <<"dispatchEvent">> \o PopBubble(Undefined)

\* FormBase.handleChange: this.popBubble(evt);
\*                        this.dispatchEvent(new Event("change"));
\* What the call does to evt and to the component, in order.
HandleChangeEffects == PopBubble(Undefined) \o <<"dispatchEvent">>

HandleChange(evt) ==
    [evt |-> evt.id, effects |-> HandleChangeEffects, from |-> "self",
     dispatched |-> NewEvent("change")]

\* Mutant: debounceTimeout is a variable of the module, not of the
\* constructor call, so that every instance reads and writes the same one.
SetFormShared(i, fs) ==
    /\ data' = Stores(i, fs.data)
    /\ timers' = [timers EXCEPT ![i] = fs.timers]
    /\ debounceTimeout' = [j \in Insts |-> fs.debounceTimeout]
    /\ bursts' = [bursts EXCEPT ![i] = fs.bursts]
    /\ thrown' = [thrown EXCEPT ![i] = fs.thrown]

\* What the handler leaves behind.  Its store mutates the object in place,
\* so every holder of that object has the new contents.
SetForm(i, fs) ==
    /\ data' = Stores(i, fs.data)
    /\ timers' = [timers EXCEPT ![i] = fs.timers]
    /\ debounceTimeout' = [debounceTimeout EXCEPT ![i] = fs.debounceTimeout]
    /\ bursts' = [bursts EXCEPT ![i] = fs.bursts]
    /\ thrown' = [thrown EXCEPT ![i] = fs.thrown]

\* A change or input event from a descendant control, or one dispatched on
\* the component itself by the page, reaches the listener.
ControlEvent(i, type, self, target, cap) ==
    /\ events[i].n < cap
    /\ type \in Listened
    /\ LET evt == Evt(events[i].n + 1, self, target)
       IN /\ events' = [events EXCEPT ![i] =
                 [n |-> evt.id, qualifying |-> ~Ignored(evt), self |-> self,
                  target |-> target]]
          /\ SetForm(i, Handler(FormState(i), evt))
          /\ latest' = IF self \/ target.name = NoName THEN latest
                        ELSE [latest EXCEPT ![i][target.name] = Stored(target)]
    /\ UNCHANGED <<lifeVars, shadow, regVars, renderVars, assigns, lastAssigned, hcLog, hcTrace,
                   bubble>>

\* The oldest timeout is due and was not cleared: its callback runs,
\*   clearTimeout(debounceTimeout); this.handleChange(evt);
\* and the "change" event handleChange dispatches on the component reaches
\* the component's own listener before dispatchEvent returns.
TimerFire(i) ==
    /\ timers[i] # <<>>
    /\ Head(timers[i]).live
    /\ LET evt == Head(timers[i]).evt
           cleared == [FormState(i) EXCEPT
                          !.timers = ClearTimeout(Tail(@), debounceTimeout[i])]
           own == Evt(0, TRUE, SelfTarget)
       IN /\ hcLog' = [hcLog EXCEPT ![i] = Append(@, evt.id)]
          /\ hcTrace' = [hcTrace EXCEPT ![i] = HandleChange(evt)]
          /\ SetForm(i, IF HandleChange(evt).dispatched.type \in Listened
                         THEN Handler(cleared, own) ELSE cleared)
    /\ UNCHANGED <<lifeVars, shadow, regVars, renderVars, assigns, lastAssigned, events, bubble,
                   latest>>

\* The due time of a cleared timeout passes: nothing runs.
TimerLapse(i) ==
    /\ timers[i] # <<>>
    /\ ~Head(timers[i]).live
    /\ timers' = [timers EXCEPT ![i] = Tail(@)]
    /\ UNCHANGED <<lifeVars, shadow, regVars, renderVars, dataVars, debounceTimeout, events,
                   bursts, hcLog, hcTrace, bubble, latest, thrown>>

\* ------------------------------------------------------- specifications
Lifecycle(i, cap) ==
    \/ Connect(i, cap)
    \/ \E c \in 1..Len(chains[i]) : PreResolve(i, c)
    \/ \E c \in 1..Len(chains[i]), r \in Reasons : PreReject(i, c, r)
    \/ \E c \in 1..Len(chains[i]), out \in RenderOutcomes : Then1(i, c, out)
    \/ \E c \in 1..Len(chains[i]) : Then2(i, c)
    \/ \E c \in 1..Len(chains[i]) : InitResolve(i, c)
    \/ \E c \in 1..Len(chains[i]), r \in Reasons : InitReject(i, c, r)
    \/ \E c \in 1..Len(chains[i]) : Catch(i, c)

Calls(i) == \E out \in RenderOutcomes : RenderCall(i, out)

Bubbles(i) == \E flag \in FlagValues : PopBubbleCall(i, flag)

Assign(i) == \E v \in AssignValues(i), out \in RenderOutcomes : AssignData(i, v, out)

Deliver(i, targets, cap) ==
    \/ \E target \in targets, type \in EventTypes :
           ControlEvent(i, type, FALSE, target, cap)
    \/ \E type \in EventTypes : ControlEvent(i, type, TRUE, SelfTarget, cap)

Timers(i) == TimerFire(i) \/ TimerLapse(i)

\* One component from construction on: its lifecycle and the page's calls.
NextLife ==
    \E i \in Driven :
        Lifecycle(i, MaxConnects) \/ Calls(i) \/ AttachShadow(i)

SpecLife == Init /\ [][NextLife]_vars

\* One component that is connected once, with the page's calls, its data
\* assignments and a few events of its text input.
Next ==
    \E i \in Driven :
        \/ Lifecycle(i, 1)
        \/ Calls(i)
        \/ Assign(i)
        \/ Deliver(i, {TitleHello}, MaxEvents)
        \/ Timers(i)

Spec == Init /\ [][Next]_vars

\* One form component that is never connected: bursts of control events.
NextForm == \E i \in Driven : Deliver(i, Controls, MaxBurst) \/ Timers(i)

SpecForm == Init /\ [][NextForm]_vars

\* The same, with the host's event loop: a timeout that is due is run or,
\* when it was cleared, dropped.
SpecFormFair == SpecForm /\ \A i \in Driven : WF_vars(Timers(i))

\* The control inside each of the two forms of the page.
IsoControl(i) == IF i = 1 THEN TitleHello ELSE AgreeChecked

\* Two form components of one page, each connected once and each with a
\* control of its own.  Their hooks resolve or reject, their first render
\* returns or throws, the page assigns the object one of them holds to the
\* data property of the other, and their control events and timeouts interleave.
NextIso ==
    \E i \in Insts :
        \/ Connect(i, 1)
        \/ \E c \in 1..Len(chains[i]) : PreResolve(i, c)
        \/ \E c \in 1..Len(chains[i]) : PreReject(i, c, "e1")
        \/ \E c \in 1..Len(chains[i]), out \in {"returns", "template.throws"} :
               Then1(i, c, out)
        \/ \E c \in 1..Len(chains[i]) : Then2(i, c)
        \/ \E c \in 1..Len(chains[i]) : InitResolve(i, c)
        \/ \E c \in 1..Len(chains[i]) : InitReject(i, c, "e1")
        \/ \E c \in 1..Len(chains[i]) : Catch(i, c)
        \/ \E j \in Insts \ {i} :
               ~SameObject(data[i], data[j]) /\ AssignData(i, data[j], "returns")
        \/ ControlEvent(i, "input", FALSE, IsoControl(i), MaxIsoEvents)
        \/ Timers(i)

SpecIso == Init /\ [][NextIso]_vars

\* The page registers its components and calls popBubble on one of them.
NextReg ==
    \/ \E tag \in Tags, cls \in Classes : Makewc(tag, cls)
    \/ \E i \in Driven : Bubbles(i)

SpecReg == Init /\ [][NextReg]_vars

\* ------------------------------------------------------------------ claims
\* The first place of x in the sequence tr, 0 when it has none.
Pos(tr, x) ==
    IF \E k \in 1..Len(tr) : tr[k] = x
    THEN CHOOSE k \in 1..Len(tr) : tr[k] = x /\ \A j \in 1..(k - 1) : tr[j] # x
    ELSE 0

Has(tr, x) == Pos(tr, x) > 0

Before(tr, a, b) == Has(tr, a) /\ Pos(tr, a) < Pos(tr, b)

\* What the chain did after the first x.
After(tr, x) == SubSeq(tr, Pos(tr, x) + 1, Len(tr))

\* The number of handleChange invocations made with an event of the burst b.
Notified(i, b) ==
    Cardinality({k \in 1..Len(hcLog[i]) :
        \E j \in 1..Len(b.ids) : b.ids[j] = hcLog[i][k]})

LiveTimers(i) == {t \in 1..Len(timers[i]) : timers[i][t].live}

\* C1: once the timeouts of a burst of N >= 1 qualifying events delivered
\* within one 10ms window are past, handleChange has been invoked exactly
\* once for the burst.
C1_OncePerBurst ==
    \A i \in Insts :
        timers[i] = <<>> =>
            \A k \in 1..Len(bursts[i]) :
                bursts[i][k].single => Notified(i, bursts[i][k]) = 1

\* C2: a qualifying event cancels the timeout pending from the previous one
\* (at most one timeout is pending), and handleChange is only ever invoked
\* with the last event of a burst, never with an event that was followed by
\* another qualifying event within 10ms.
C2_TrailingOnly ==
    \A i \in Insts :
        /\ Cardinality(LiveTimers(i)) <= 1
        /\ \A k \in 1..Len(hcLog[i]) :
               \A b \in 1..Len(bursts[i]) :
                   LET ids == bursts[i][b].ids
                   IN Has(ids, hcLog[i][k]) => hcLog[i][k] = ids[Len(ids)]

\* C3: in every chain pre is invoked first, the flag is set and the render
\* pass made only after pre's promise resolved, and init is invoked only
\* after that render pass returned; the flag is false and no template has
\* been produced while no pre has resolved, and true once a chain is past
\* its render step.
C3_LifecycleOrder ==
    \A i \in Insts :
        /\ \A c \in 1..Len(chains[i]) :
               LET tr == chains[i][c].trace
               IN /\ tr[1] = "pre"
                  /\ Has(tr, "flag") => Before(tr, "pre.resolved", "flag")
                  /\ Has(tr, "render") => Before(tr, "flag", "render")
                  /\ Has(tr, "init") => Before(tr, "render.returned", "init")
                  /\ Has(tr, "flag") => canRender[i]
        /\ (\A c \in 1..Len(chains[i]) : ~Has(chains[i][c].trace, "pre.resolved"))
               => ~canRender[i] /\ tplCalls[i] = 0 /\ extRenders[i].n = 0

C3_Witness ==
    \E c \in 1..Len(chains[1]) :
        /\ chains[1][c].pc = "ready"
        /\ canRender[1]
        /\ extRenders[1].n > 0

\* C4: a chain whose pre or init rejected runs nothing but setupError
\* afterwards, and runs it at most once and with the rejection reason (once
\* the chain has ended, exactly once); a chain whose pre rejected never
\* sets the flag, renders or invokes init, so that while every connection's
\* pre has rejected the flag is false and nothing has been rendered.
C4_RejectionStops ==
    \A i \in Insts :
        /\ \A c \in 1..Len(chains[i]) :
               LET ch == chains[i][c]
               IN /\ \A x \in {"pre.rejected", "init.rejected"} :
                         Has(ch.trace, x) =>
                             /\ After(ch.trace, x) \in {<<>>, <<"setupError">>}
                             /\ ch.reason \in Reasons
                             /\ ch.errs = IF ch.pc = "error" THEN <<ch.reason>> ELSE <<>>
                             /\ ch.pc \in {"catch", "error"}
                  /\ Has(ch.trace, "pre.rejected") =>
                         /\ ~Has(ch.trace, "flag")
                         /\ ~Has(ch.trace, "render")
                         /\ ~Has(ch.trace, "init")
                  /\ Len(ch.errs) <= 1
        /\ (chains[i] # <<>> /\
            \A c \in 1..Len(chains[i]) : Has(chains[i][c].trace, "pre.rejected"))
               => ~canRender[i] /\ tplCalls[i] = 0

C4_Witness ==
    /\ Len(chains[1]) = 2
    /\ chains[1][1].trace = <<"pre", "pre.rejected", "setupError">>
    /\ chains[1][1].errs = <<"e1">>
    /\ Has(chains[1][2].trace, "init.rejected")
    /\ chains[1][2].errs = <<"e2">>
    /\ chains[1][2].pc = "error"

\* C5: the backing data reference is never null.
C5_DataNeverNull == \A i \in Insts : data[i].kind # "null"

\* C6: an assignment of a string, number, boolean, undefined or function
\* leaves the mapping (reference and contents) and the render counts as they
\* were; an assignment of an object-typed value makes that value the mapping
\* and calls render() once, which produces the template once when the flag
\* is true.
C6_SetterContract ==
    [][\A i \in Insts :
        assigns'[i] # assigns[i] =>
            LET v == lastAssigned'[i]
            IN IF v.kind \in PrimKinds
               THEN /\ data'[i] = data[i]
                    /\ renderCalls'[i] = renderCalls[i]
                    /\ tplCalls'[i] = tplCalls[i]
                    /\ extRenders'[i] = extRenders[i]
               ELSE /\ data'[i] = v
                    /\ renderCalls'[i] = renderCalls[i] + 1
                    /\ tplCalls'[i] = tplCalls[i] + (IF canRender[i] THEN 1 ELSE 0)]_vars

C6_Witness ==
    /\ assigns[1] = 1
    /\ lastAssigned[1].kind = "string"
    /\ canRender[1]
    /\ data[1].ref = 0
    /\ data[1].map["title"] = Str("Hello")
    /\ renderCalls[1] = 1

\* C7: the flag is false at construction, goes from false to true at most
\* once (exactly once when a pre has resolved and its reaction has run), and
\* no step sets it back to false.
C7_FlagOnce ==
    /\ [](\A i \in Insts :
            /\ flips[i] <= 1
            /\ canRender[i] <=> flips[i] = 1
            /\ chains[i] = <<>> => ~canRender[i]
            /\ canRender[i] <=>
                   \E c \in 1..Len(chains[i]) : Has(chains[i][c].trace, "flag"))
    /\ [][\A i \in Insts : canRender[i] => canRender'[i]]_vars

C7_Witness ==
    /\ Len(chains[1]) = 2
    /\ Has(chains[1][1].trace, "flag")
    /\ Has(chains[1][2].trace, "flag")
    /\ flips[1] = 1
    /\ canRender[1]

\* C8: the template override and the external render function are invoked
\* only while the flag is true (when the flag already was true, or in the
\* lifecycle step that has just set it); a render() call or a data
\* assignment made while the flag is false invokes neither.
C8_RenderGating ==
    [][\A i \in Insts :
        (tplCalls'[i] # tplCalls[i] \/ extRenders'[i] # extRenders[i]) =>
            /\ canRender'[i]
            /\ canRender[i] \/ chains'[i] # chains[i]]_vars

C8_Witness ==
    /\ Len(chains[1]) = 1
    /\ chains[1][1].pc = "pre"
    /\ renderCalls[1] = 2
    /\ assigns[1] = 1
    /\ data[1].ref = 1
    /\ ~canRender[1]
    /\ tplCalls[1] = 0
    /\ extRenders[1].n = 0

\* C9: once the promise returned by init has resolved, a render pass
\* follows (render is called after "init.resolved").
C9_RenderAfterInit ==
    \A i \in Insts :
        \A c \in 1..Len(chains[i]) :
            chains[i][c].pc = "ready" =>
                Has(After(chains[i][c].trace, "init.resolved"), "render")

\* C10 as stated: the event the default handleChange dispatches is a
\* "change" event from the component that bubbles and is not cancelable,
\* and the control's event is stopped before it is dispatched.
C10_BubblingChange ==
    \A i \in Insts :
        hcTrace[i].evt # 0 =>
            /\ hcTrace[i].dispatched.type = "change"
            /\ hcTrace[i].from = "self"
            /\ hcTrace[i].dispatched.bubbles
            /\ ~hcTrace[i].dispatched.cancelable
            /\ Before(hcTrace[i].effects, "stopPropagation", "dispatchEvent")

\* C10 amended: the event the default handleChange dispatches is a "change"
\* event from the component that does not bubble and is not cancelable, and
\* the control's event has its propagation and immediate propagation
\* stopped before it is dispatched.
C10_PlainChange ==
    \A i \in Insts :
        hcTrace[i].evt # 0 =>
            /\ hcTrace[i].dispatched.type = "change"
            /\ hcTrace[i].from = "self"
            /\ ~hcTrace[i].dispatched.bubbles
            /\ ~hcTrace[i].dispatched.cancelable
            /\ Before(hcTrace[i].effects, "stopPropagation", "dispatchEvent")
            /\ Before(hcTrace[i].effects, "stopImmediatePropagation", "dispatchEvent")
            /\ ~Has(hcTrace[i].effects, "preventDefault")

C10_Witness ==
    /\ hcTrace[1].evt = 2
    /\ hcLog[1] = <<1, 2>>
    /\ hcTrace[1].dispatched.type = "change"


\* C11: every qualifying change/input event stores under the key that is
\* the control's name the boolean "has the checked attribute" for a
\* checkbox and the control's value for any other control, and changes no
\* other key of the mapping.
C11_StoresUnderName ==
    [][\A i \in Insts :
        (events'[i].n # events[i].n /\ events'[i].qualifying) =>
            LET t == events'[i].target
            IN /\ data'[i].kind = "object"
               /\ data'[i].ref = data[i].ref
               /\ data'[i].map[t.name] =
                      (IF t.type = "checkbox" THEN Bool(t.hasChecked) ELSE Str(t.value))
               /\ \A m \in Names \ {t.name} : data'[i].map[m] = data[i].map[m]]_vars


\* C12: a change or input event whose target is the component itself, or
\* whose target has no name or an empty one, leaves the data mapping
\* unchanged, starts and cancels no timer, and never leads to a handleChange
\* call: no pending timeout belongs to such an event, and every handleChange
\* call is the one of the timeout that was due.
C12_IgnoredEventFrame ==
    /\ [](\A i \in Insts : \A t \in 1..Len(timers[i]) :
            ~timers[i][t].evt.self /\ timers[i][t].evt.target.name # NoName)
    /\ [][\A i \in Insts :
            /\ (events'[i].n # events[i].n
                    /\ (events'[i].self \/ events'[i].target.name = NoName)) =>
                  /\ data'[i] = data[i]
                  /\ timers'[i] = timers[i]
                  /\ debounceTimeout'[i] = debounceTimeout[i]
                  /\ hcLog'[i] = hcLog[i]
                  /\ thrown'[i] = thrown[i]
            /\ hcLog'[i] # hcLog[i] =>
                  /\ timers[i] # <<>>
                  /\ hcLog'[i] = Append(hcLog[i], Head(timers[i]).id)]_vars

\* An event of a control without a name arrived while a timeout was pending,
\* and the timeout is still pending.
C12_Witness ==
    /\ events[1].n >= 2
    /\ ~events[1].self
    /\ events[1].target.name = NoName
    /\ timers[1] # <<>>
    /\ Head(timers[1]).live
    /\ debounceTimeout[1] = Head(timers[1]).id
    /\ Head(timers[1]).id < events[1].n


\* C13: popBubble always stops the event's propagation and its immediate
\* propagation, and it calls the event's preventDefault if and only if the
\* flag is truthy; with the flag omitted the default action is left alone.
C13_PopBubble ==
    \A i \in Insts :
        bubble[i].called =>
            /\ Len(bubble[i].effects) >= 2
            /\ bubble[i].effects[1] = "stopPropagation"
            /\ bubble[i].effects[2] = "stopImmediatePropagation"
            /\ Has(bubble[i].effects, "preventDefault")
                   <=> bubble[i].flag \in
                           {Flag("boolean", TRUE, 0, ""), Flag("number", FALSE, 1, ""),
                            Flag("string", FALSE, 0, "yes"), Flag("object", FALSE, 0, "")}
            /\ Len(bubble[i].effects) <= 3

\* popBubble was called with a truthy flag that is not the boolean true.
C13_Witness ==
    /\ bubble[1].called
    /\ bubble[1].flag = Flag("string", FALSE, 0, "yes")
    /\ bubble[1].effects = <<"stopPropagation", "stopImmediatePropagation", "preventDefault">>


\* C14: makewc(tag, cls) calls the registry's define once; when define
\* registers, cls is the class of tag in the registry, no other tag changes
\* and makewc returns cls itself; when define raises, the failure reaches the
\* caller, nothing is returned and the registry is as before.
C14_Makewc ==
    /\ [](made.defines = made.n)
    /\ [][made'.n # made.n =>
            /\ made'.defines = made.defines + 1
            /\ IF /\ made'.tag \in {"my-form", "my-card"}
                  /\ registry[made'.tag] = NoClass
                  /\ \A t \in Tags : registry[t] # made'.cls
               THEN /\ made'.threw = "none"
                    /\ made'.returned = made'.cls
                    /\ registry'[made'.tag] = made'.cls
                    /\ \A t \in Tags \ {made'.tag} : registry'[t] = registry[t]
               ELSE /\ made'.threw # "none"
                    /\ made'.returned = Nothing
                    /\ registry' = registry]_vars

\* One class was registered and returned, and a second makewc call for the
\* same tag failed in the registry.
C14_Witness ==
    /\ made.n = 2
    /\ made.tag = "my-form"
    /\ made.cls = "MyCard"
    /\ made.threw = "NotSupportedError"
    /\ made.returned = Nothing
    /\ registry["my-form"] = "MyForm"


\* The connections of instance i whose hook h ("pre" or "init") was invoked
\* and has not settled yet.
Pending(i, h) == {c \in 1..Len(chains[i]) : chains[i][c].pc = h}

\* The number of invocations of hook h on instance i.
Invoked(i, h) == Cardinality({c \in 1..Len(chains[i]) : Has(chains[i][c].trace, h)})

\* C15: for one instance, whatever the connections (a reconnection while an
\* earlier hook is pending included), at most one execution of pre or init
\* is in progress at any time.
C15_NoParallelHooks ==
    \A i \in Insts : Cardinality(Pending(i, "pre") \cup Pending(i, "init")) <= 1

\* C16: over the lifetime of an instance pre is invoked at most once and
\* init is invoked at most once, whatever is done to the instance.
C16_HooksOnce ==
    \A i \in Insts : Invoked(i, "pre") <= 1 /\ Invoked(i, "init") <= 1


\* Instance i took a step: its chain, its listener, its timeouts or its
\* data setter ran.
Acted(i) ==
    \/ chains'[i] # chains[i]
    \/ events'[i] # events[i]
    \/ timers'[i] # timers[i]
    \/ assigns'[i] # assigns[i]

\* C17 as stated: a control event, a store by the handler, the start or the
\* expiry of a timeout or a lifecycle step on one instance never changes
\* another instance's flag, data mapping or pending timeout.
C17_Isolation ==
    [][\E i \in Insts :
          /\ Acted(i)
          /\ \A j \in Insts \ {i} :
                /\ canRender'[j] = canRender[j]
                /\ data'[j] = data[j]
                /\ timers'[j] = timers[j]
                /\ debounceTimeout'[j] = debounceTimeout[j]]_vars

\* C17, amended: a step of one instance never changes another instance's
\* flag, timeouts, timer handle, chain or event count, and it changes
\* another instance's data mapping only when both hold one and the same
\* object, the page having assigned the object of one to the data property
\* of the other: then the handler's store shows in both, and both hold the
\* same contents afterwards.
C17_IsolationButShared ==
    [][\E i \in Insts :
          /\ Acted(i)
          /\ \A j \in Insts \ {i} :
                /\ ~Acted(j)
                /\ canRender'[j] = canRender[j]
                /\ timers'[j] = timers[j]
                /\ debounceTimeout'[j] = debounceTimeout[j]
                /\ hcLog'[j] = hcLog[j]
                /\ data'[j] # data[j] =>
                      /\ data[i].kind = "object" /\ data[j].kind = "object"
                      /\ data[i].ref = data[j].ref
                      /\ data[i].map = data[j].map
                      /\ events'[i].n # events[i].n
                      /\ data'[j] = data'[i]]_vars

\* Instance 2 was assigned the object instance 1 holds; a control event of
\* instance 1 shows in the data of instance 2, which got no event and has
\* no timeout, while instance 1's timeout is pending.
C17_Witness ==
    /\ data[1].kind = "object" /\ data[2].kind = "object"
    /\ data[1].ref = data[2].ref /\ data[1].ref = OwnRef(1, 0)
    /\ assigns[2] = 1
    /\ events[1].n = 1 /\ events[2].n = 0
    /\ data[2].map["title"] = Str("Hello")
    /\ timers[2] = <<>> /\ debounceTimeout[2] = 0
    /\ LiveTimers(1) # {} /\ debounceTimeout[1] = 1
    /\ canRender[1] /\ ~canRender[2]

\* The number of qualifying events delivered to instance i.
Qualified(i) ==
    LET RECURSIVE Sum(_)
        Sum(k) == IF k = 0 THEN 0 ELSE Len(bursts[i][k].ids) + Sum(k - 1)
    IN Sum(Len(bursts[i]))

\* C18: a handleChange call dispatches a "change" event from the component
\* that its own listener ignores: the step that runs a due timeout takes
\* that timeout off the pending ones, adds none, leaves the data and the
\* timer handle alone and makes exactly one handleChange call; so there are
\* never more handleChange calls than qualifying control events, and once
\* control events stop no timeout stays pending.
C18_NoFeedbackLoop ==
    /\ [](\A i \in Insts : Len(hcLog[i]) <= Qualified(i))
    /\ [][\A i \in Insts :
            /\ hcLog'[i] # hcLog[i] =>
                  /\ hcTrace'[i].dispatched.type = "change"
                  /\ hcTrace'[i].from = "self"
                  /\ Len(hcLog'[i]) = Len(hcLog[i]) + 1
                  /\ Len(timers'[i]) = Len(timers[i]) - 1
                  /\ \A t \in 1..Len(timers'[i]) : timers'[i][t].id = timers[i][t + 1].id
                  /\ data'[i] = data[i]
                  /\ debounceTimeout'[i] = debounceTimeout[i]
                  /\ bursts'[i] = bursts[i]
            /\ events'[i] = events[i] => Len(timers'[i]) <= Len(timers[i])]_vars
    /\ \A i \in Driven : <>[](timers[i] = <<>>)

\* One qualifying event led to one handleChange call, whose "change" event
\* started nothing: no timeout is pending.
C18_Witness ==
    /\ events[1].n = 1
    /\ events[1].qualifying
    /\ hcLog[1] = <<1>>
    /\ hcTrace[1].dispatched.type = "change"
    /\ timers[1] = <<>>
    /\ data[1].map["title"] = Str("Hello")


\* C19: when template(this) or the external render function throws in the
\* render pass of a connection's chain, the flag was set before the render
\* and stays true, the chain does nothing afterwards but invoke setupError,
\* once and with the thrown value, and init is not invoked by that chain.
C19_RenderThrowRouted ==
    \A i \in Insts : \A c \in 1..Len(chains[i]) :
        LET ch == chains[i][c]
        IN Has(ch.trace, "render.threw") =>
              /\ canRender[i]
              /\ Before(ch.trace, "flag", "render")
              /\ Before(ch.trace, "render", "render.threw")
              /\ After(ch.trace, "render.threw") \in {<<>>, <<"setupError">>}
              /\ ~Has(ch.trace, "init")
              /\ ch.pc \in {"catch", "error"}
              /\ ch.reason = TemplateError
              /\ ch.errs = IF ch.pc = "error" THEN <<TemplateError>> ELSE <<>>

\* The first render threw and setupError has run with the thrown value.
C19_Witness ==
    /\ Len(chains[1]) = 1
    /\ chains[1][1].trace =
           <<"pre", "pre.resolved", "flag", "render", "render.threw", "setupError">>
    /\ chains[1][1].errs = <<TemplateError>>
    /\ chains[1][1].pc = "error"
    /\ canRender[1]
    /\ tplCalls[1] = 1
    /\ extRenders[1].n = 0


\* C20: at any moment, also while a timeout is pending and for events whose
\* notification never comes, the data mapping holds under every name the
\* value of the latest qualifying event for that name, unless the data
\* property was assigned since.
C20_DataIsLatest ==
    \A i \in Insts : \A n \in Names :
        latest[i][n] # Absent =>
            /\ data[i].kind = "object"
            /\ data[i].map[n] = latest[i][n]

====
